---- MODULE Spec2Model ----
(***************************************************************************)
(* Model of the COE schedule ETL utility: the extractor                    *)
(* (src/extract_schedule.py) and the loader (src/load_schedule.py).        *)
(* Text is modelled as a sequence of one-character strings.                *)
(***************************************************************************)
EXTENDS Integers, Sequences, FiniteSets, Bags, TLC

VARIABLES
    \* ---- year parser (extract_year_from_filename) ----
    file_path,      \* the argument
    ypc,            \* "call" | "returned"
    yresult,        \* the returned value (None or an integer)
    \* ---- loader (load_schedule.py: main, upload_to_s3, load_to_redshift) ----
    env,            \* the process environment, read by os.getenv
    args,           \* main's arguments: file_path, upload_s3, load_redshift, mode
    mpc,            \* main's position
    lpc,            \* load_to_redshift's position
    year,           \* main's local `year`
    s3_path,        \* main's local `s3_path`
    conn,           \* the warehouse connection: "none" | "open" | "closed"
    server,         \* the SSH tunnel: "none" | "built" | "started" | "stopped"
    txn,            \* table rows as the open transaction sees them
    db,             \* committed table rows (a bag)
    s3,             \* the bucket: a set of [key, rows] objects
    sql_log,        \* statements handed to cur.execute / conn.commit in this run
    log,            \* messages printed in this run
    committed,      \* conn.commit() returned in this run
    db0,            \* committed rows when this run began
    prev,           \* summary of the run before this one
    runs,           \* number of loader runs begun
    \* ---- provider adapters (extract_with_openai, extract_with_gemini) ----
    provider,       \* "openai" | "gemini"
    api_key,        \* the provider's API key is set in the environment
    images,         \* the argument: base64 texts, one per page
    response,       \* what the model service answers to this request
    xpc,            \* the adapter's position
    nparts,         \* image parts attached to the request so far
    client_built,   \* the vendor client was constructed
    request_sent,   \* the model request was sent
    xlog,           \* messages printed by the adapter
    xresult,        \* the adapter's return value
    \* ---- serializer (save_to_jsonl) ----
    schedule_data,  \* the argument: a sequence of BiddingExercise records
    files,          \* the output directory: file name -> content
    files0,         \* the output directory as it was at the call
    spc,            \* save_to_jsonl's position
    written,        \* entries written so far
    output_path     \* the returned path (NoFile when nothing was saved)

yvars == <<file_path, ypc, yresult>>
lvars == <<env, args, mpc, lpc, year, s3_path, conn, server, txn, db, s3,
           sql_log, log, committed, db0, prev, runs>>
xvars == <<provider, api_key, images, response, xpc, nparts, client_built,
           request_sent, xlog, xresult>>
svars == <<schedule_data, files, files0, spc, written, output_path>>
vars == <<yvars, lvars, xvars, svars>>

\* The variables of the components other than the one named.
not_loader == <<yvars, xvars, svars>>
not_year == <<lvars, xvars, svars>>
not_adapter == <<yvars, lvars, svars>>
not_serializer == <<yvars, lvars, xvars>>

(***************************************************************************)
(* Python values                                                           *)
(***************************************************************************)
\* Optional[int] None; every integer the parser returns is >= 0.
None == -1

\* Truthiness of an Optional[int]: None and 0 are both falsy.
Truthy(v) == v # None /\ v # 0

(***************************************************************************)
(* Text helpers                                                            *)
(***************************************************************************)
DigitChars == {"0", "1", "2", "3", "4", "5", "6", "7", "8", "9"}

IsDigit(c) == c \in DigitChars

DigitVal(c) ==
    CASE c = "0" -> 0 [] c = "1" -> 1 [] c = "2" -> 2 [] c = "3" -> 3
      [] c = "4" -> 4 [] c = "5" -> 5 [] c = "6" -> 6 [] c = "7" -> 7
      [] c = "8" -> 8 [] c = "9" -> 9

DigitChar(d) ==
    CASE d = 0 -> "0" [] d = 1 -> "1" [] d = 2 -> "2" [] d = 3 -> "3"
      [] d = 4 -> "4" [] d = 5 -> "5" [] d = 6 -> "6" [] d = 7 -> "7"
      [] d = 8 -> "8" [] d = 9 -> "9"

\* int("dddd"): the decimal value of a digit sequence; leading zeros vanish.
RECURSIVE ParseInt(_)
ParseInt(s) ==
    IF s = <<>> THEN 0
    ELSE 10 * ParseInt(SubSeq(s, 1, Len(s) - 1)) + DigitVal(s[Len(s)])

\* str(n) for n >= 0, as the f-string '%{year}%' renders the year.
RECURSIVE IntToStr(_)
IntToStr(n) ==
    IF n < 10 THEN <<DigitChar(n)>>
    ELSE IntToStr(n \div 10) \o <<DigitChar(n % 10)>>

\* All sequences over S of length at most n.
SeqsUpTo(S, n) == UNION {[1..k -> S] : k \in 0..n}

(***************************************************************************)
(* extract_year_from_filename                                              *)
(***************************************************************************)
\* The whole path searched, directory components included.
basename_whole_path(p) == p

\* os.path.basename (posix): everything after the last "/".
basename(p) ==
    LET slashes == {i \in 1..Len(p) : p[i] = "/"}
        last == IF slashes = {} THEN 0
                ELSE CHOOSE i \in slashes : \A j \in slashes : j <= i
    IN  SubSeq(p, last + 1, Len(p))

\* re.search(r'(\d{4})', s): the start of the leftmost match, 0 when none.
re_search_d4(s) ==
    LET hits == {i \in 1..(Len(s) - 3) : \A k \in 0..3 : IsDigit(s[i + k])}
    IN  IF hits = {} THEN 0 ELSE CHOOSE i \in hits : \A j \in hits : i <= j

extract_year_from_filename(p) ==
    LET filename == basename(p)
        match == re_search_d4(filename)
    IN  IF match # 0 THEN ParseInt(SubSeq(filename, match, match + 3))
        ELSE None

(***************************************************************************)
(* Loader: data                                                            *)
(***************************************************************************)
\* A bag of the elements of a sequence.
RECURSIVE SeqToBag(_)
SeqToBag(q) ==
    IF q = <<>> THEN EmptyBag
    ELSE SeqToBag(Tail(q)) (+) SetToBag({Head(q)})

\* text contains pat as a contiguous substring (SQL: text LIKE '%pat%').
Contains(text, pat) ==
    \E i \in 0..(Len(text) - Len(pat)) : SubSeq(text, i + 1, i + Len(pat)) = pat

\* The f-string rendering {year} of an Optional[int].
YearText(y) == IF y = None THEN <<"N", "o", "n", "e">> ELSE IntToStr(y)

\* One line of the file, one row of the table.
Row(m, s, e) ==
    [month |-> m, exercise_start_datetime |-> s, exercise_end_datetime |-> e]

Row_2025_03 ==
    Row(<<"2","0","2","5","-","0","3">>,
        "2025-03-01T00:00:00+08:00", "2025-03-07T23:59:59+08:00")
Row_2025_04 ==
    Row(<<"2","0","2","5","-","0","4">>,
        "2025-04-01T00:00:00+08:00", "2025-04-07T23:59:59+08:00")
Row_Mar ==
    Row(<<"M","a","r">>,
        "2025-03-01T00:00:00+08:00", "2025-03-07T23:59:59+08:00")
Row_2000_01 ==
    Row(<<"2","0","0","0","-","0","1">>,
        "2000-01-03T00:00:00+08:00", "2000-01-05T23:59:59+08:00")
Row_2025_01 ==
    Row(<<"2","0","2","5","-","0","1">>,
        "2025-01-06T00:00:00+08:00", "2025-01-08T23:59:59+08:00")
Row_2024_12 ==
    Row(<<"2","0","2","4","-","1","2">>,
        "2024-12-02T00:00:00+08:00", "2024-12-04T23:59:59+08:00")

\* Local files: "d/c2025", "m2025", "sched", "c0000"; "nofile" does not exist.
Path_2025 == <<"d", "/", "c", "2", "0", "2", "5">>
Path_2025_NoYearInMonth == <<"m", "2", "0", "2", "5">>
Path_NoYear == <<"s", "c", "h", "e", "d">>
Path_Year0 == <<"c", "0", "0", "0", "0">>
Path_Missing == <<"n", "o", "f", "i", "l", "e">>

LocalFiles ==
    {Path_2025, Path_2025_NoYearInMonth, Path_NoYear, Path_Year0}

FileRows(p) ==
    CASE p = Path_2025 -> <<Row_2025_03, Row_2025_04>>
      [] p = Path_2025_NoYearInMonth -> <<Row_Mar>>
      [] p = Path_NoYear -> <<Row_2025_04>>
      [] p = Path_Year0 -> <<Row_2000_01>>

InitialTables == {EmptyBag, SetToBag({Row_2025_01, Row_2024_12})}

RedshiftKeys ==
    {"REDSHIFT_HOST", "REDSHIFT_DB", "REDSHIFT_USER", "REDSHIFT_PASSWORD",
     "REDSHIFT_IAM_ROLE", "REDSHIFT_TABLE"}

SshKeys == {"SSH_HOST", "SSH_USER", "SSH_KEY_PATH"}

\* Environments: at most one warehouse value unset; the tunnel settings all
\* set, all unset, or only the host set.
Environments ==
    [bucket : BOOLEAN,
     missing : {{}} \cup {{k} : k \in RedshiftKeys},
     ssh : {SshKeys, {}, {"SSH_HOST"}}]

Modes == {"append", "replace"}

Arguments ==
    [file_path : LocalFiles \cup {Path_Missing},
     upload_s3 : BOOLEAN,
     load_redshift : BOOLEAN,
     mode : Modes]

NoPath == [ok |-> FALSE, key |-> <<>>]

NoPrev ==
    [file_path |-> <<>>, mode |-> "append", committed |-> FALSE, db |-> EmptyBag]

\* The table named in the SQL text: os.getenv gives None for an unset
\* REDSHIFT_TABLE and the f-string renders it "None".
TableName == IF "REDSHIFT_TABLE" \in env.missing THEN "None" ELSE "coe_table"

Stmt(op, arg, ok) == [op |-> op, table |-> TableName, arg |-> arg, ok |-> ok]

(***************************************************************************)
(* Loader: main and upload_to_s3                                           *)
(***************************************************************************)
loader_locals == <<year, s3_path, conn, server, txn, sql_log, committed>>

\* main, line 235: os.path.exists(file_path)
MainStart ==
    /\ mpc = "start"
    /\ IF args.file_path \notin LocalFiles
       THEN /\ log' = log \cup {"file_not_found"}
            /\ mpc' = "done"
       ELSE /\ mpc' = "year"
            /\ UNCHANGED log
    /\ UNCHANGED <<not_loader, env, args, lpc, db, s3, db0, prev, runs, loader_locals>>

\* main, lines 240-245
MainYear ==
    /\ mpc = "year"
    /\ year' = extract_year_from_filename(args.file_path)
    /\ log' = IF args.mode = "replace" /\ ~Truthy(year')
              THEN log \cup {"warn_no_year_in_filename"} ELSE log
    /\ mpc' = IF args.upload_s3 THEN "upload_bucket" ELSE "dispatch"
    /\ UNCHANGED <<not_loader, env, args, lpc, s3_path, conn, server, txn, db, s3, sql_log,
                   committed, db0, prev, runs>>

\* upload_to_s3, lines 59-62
UploadBucket ==
    /\ mpc = "upload_bucket"
    /\ IF ~env.bucket
       THEN /\ log' = log \cup {"bucket_not_set"}
            /\ s3_path' = NoPath
            /\ mpc' = "dispatch"
       ELSE /\ mpc' = "upload_client"
            /\ UNCHANGED <<log, s3_path>>
    /\ UNCHANGED <<not_loader, env, args, lpc, year, conn, server, txn, db, s3, sql_log,
                   committed, db0, prev, runs>>

\* upload_to_s3, lines 64-69: boto3.client(...) is called outside the try.
UploadClient ==
    /\ mpc = "upload_client"
    /\ \/ mpc' = "upload_file"
       \/ mpc' = "raised"
    /\ UNCHANGED <<not_loader, env, args, lpc, log, db, s3, db0, prev, runs, loader_locals>>

\* upload_to_s3, lines 71-80
UploadFile ==
    /\ mpc = "upload_file"
    /\ LET key == basename(args.file_path) IN
       \/ /\ s3' = {o \in s3 : o.key # key}
                      \cup {[key |-> key, rows |-> FileRows(args.file_path)]}
          /\ s3_path' = [ok |-> TRUE, key |-> key]
          /\ UNCHANGED log
       \/ /\ log' = log \cup {"upload_error"}
          /\ s3_path' = NoPath
          /\ UNCHANGED s3
    /\ mpc' = "dispatch"
    /\ UNCHANGED <<not_loader, env, args, lpc, year, conn, server, txn, db, sql_log,
                   committed, db0, prev, runs>>

\* main, lines 248-251
MainDispatch ==
    /\ mpc = "dispatch"
    /\ IF args.load_redshift /\ s3_path.ok
       THEN /\ mpc' = "load"
            /\ lpc' = "config"
            /\ UNCHANGED log
       ELSE /\ mpc' = "done"
            /\ log' = IF args.load_redshift
                      THEN log \cup {"skip_redshift_load"} ELSE log
            /\ UNCHANGED lpc
    /\ UNCHANGED <<not_loader, env, args, db, s3, db0, prev, runs, loader_locals>>

(***************************************************************************)
(* Loader: load_to_redshift                                                *)
(***************************************************************************)
\* What no step of load_to_redshift changes.
load_fixed == <<not_loader, env, args, year, s3_path, s3, db0, prev, runs>>

\* The values line 135 tests.
CheckedKeys ==
    {"REDSHIFT_HOST", "REDSHIFT_DB", "REDSHIFT_USER", "REDSHIFT_PASSWORD",
     "REDSHIFT_IAM_ROLE"}

\* Line 144: ssh_host and ssh_user and ssh_key_path
TunnelNeeded == SshKeys \subseteq env.ssh

\* The delete is issued in replace mode whatever the year is.
ShouldDelete_any_year(mode, y) == mode = "replace"

\* Lines 187-188: mode == LoadMode.REPLACE, then `if year:`
ShouldDelete(mode, y) == mode = "replace" /\ Truthy(y)

\* DELETE FROM t WHERE month LIKE '%<year>%' applied to a bag of rows.
DeleteLike(rows, y) ==
    LET keep == {r \in BagToSet(rows) : ~Contains(r.month, YearText(y))}
    IN  [r \in keep |-> rows[r]]

\* COPY t FROM '<s3_path>': the rows of the object under the key.
ObjectRows(key) ==
    IF \E o \in s3 : o.key = key
    THEN (CHOOSE o \in s3 : o.key = key).rows
    ELSE <<>>

\* The except clause, lines 215-216: the error is printed, then finally runs.
Except ==
    /\ log' = log \cup {"load_error"}
    /\ lpc' = "finally_conn"

\* Lines 121-140
LoadCheckConfig ==
    /\ mpc = "load" /\ lpc = "config"
    /\ IF CheckedKeys \cap env.missing # {}
       THEN /\ log' = log \cup {"config_missing"}
            /\ lpc' = "returned"
            /\ mpc' = "done"
       ELSE /\ lpc' = IF TunnelNeeded THEN "tunnel_new" ELSE "connect"
            /\ UNCHANGED <<log, mpc>>
    /\ UNCHANGED <<load_fixed, conn, server, txn, db, sql_log, committed>>

\* Lines 146-151: SSHTunnelForwarder(...)
TunnelConstruct ==
    /\ mpc = "load" /\ lpc = "tunnel_new"
    /\ \/ /\ server' = "built"
          /\ lpc' = "tunnel_start"
          /\ UNCHANGED log
       \/ /\ Except
          /\ UNCHANGED server
    /\ UNCHANGED <<load_fixed, mpc, conn, txn, db, sql_log, committed>>

\* Line 152: server.start()
TunnelStart ==
    /\ mpc = "load" /\ lpc = "tunnel_start"
    /\ \/ /\ server' = "started"
          /\ lpc' = "connect"
          /\ UNCHANGED log
       \/ /\ Except
          /\ UNCHANGED server
    /\ UNCHANGED <<load_fixed, mpc, conn, txn, db, sql_log, committed>>

\* Lines 156-171: _get_redshift_connection(...)
Connect ==
    /\ mpc = "load" /\ lpc = "connect"
    /\ \/ /\ conn' = "open"
          /\ txn' = db
          /\ lpc' = "cursor"
          /\ UNCHANGED log
       \/ /\ Except
          /\ UNCHANGED <<conn, txn>>
    /\ UNCHANGED <<load_fixed, mpc, server, db, sql_log, committed>>

\* Line 173: conn.cursor()
Cursor ==
    /\ mpc = "load" /\ lpc = "cursor"
    /\ \/ /\ lpc' = "create"
          /\ UNCHANGED log
       \/ Except
    /\ UNCHANGED <<load_fixed, mpc, conn, server, txn, db, sql_log, committed>>

\* Lines 176-184: CREATE TABLE IF NOT EXISTS
CreateTable ==
    /\ mpc = "load" /\ lpc = "create"
    /\ \/ /\ sql_log' = Append(sql_log, Stmt("create", <<>>, TRUE))
          /\ lpc' = "mode"
          /\ UNCHANGED log
       \/ /\ sql_log' = Append(sql_log, Stmt("create", <<>>, FALSE))
          /\ Except
    /\ UNCHANGED <<load_fixed, mpc, conn, server, txn, db, committed>>

\* Lines 187-195: the DELETE of replace mode
DeleteYear ==
    /\ mpc = "load" /\ lpc = "mode"
    /\ ShouldDelete(args.mode, year)
    /\ \/ /\ sql_log' = Append(sql_log, Stmt("delete", YearText(year), TRUE))
          /\ txn' = DeleteLike(txn, year)
          /\ lpc' = "copy"
          /\ UNCHANGED log
       \/ /\ sql_log' = Append(sql_log, Stmt("delete", YearText(year), FALSE))
          /\ Except
          /\ UNCHANGED txn
    /\ UNCHANGED <<load_fixed, mpc, conn, server, db, committed>>

\* Lines 187, 196-197: replace mode, the year falsy: a warning, no delete
SkipDeleteWarn ==
    /\ mpc = "load" /\ lpc = "mode"
    /\ args.mode = "replace"
    /\ ~ShouldDelete(args.mode, year)
    /\ log' = log \cup {"warn_skip_delete"}
    /\ lpc' = "copy"
    /\ UNCHANGED <<load_fixed, mpc, conn, server, txn, db, sql_log, committed>>

\* Line 187: append mode, nothing between create and copy
AppendNoDelete ==
    /\ mpc = "load" /\ lpc = "mode"
    /\ args.mode # "replace"
    /\ ~ShouldDelete(args.mode, year)
    /\ lpc' = "copy"
    /\ UNCHANGED <<load_fixed, mpc, conn, server, txn, db, sql_log, committed,
                   log>>

\* Lines 200-208: COPY ... FROM s3_path
Copy ==
    /\ mpc = "load" /\ lpc = "copy"
    /\ \/ /\ sql_log' = Append(sql_log, Stmt("copy", s3_path.key, TRUE))
          /\ txn' = txn (+) SeqToBag(ObjectRows(s3_path.key))
          /\ lpc' = "commit"
          /\ UNCHANGED log
       \/ /\ sql_log' = Append(sql_log, Stmt("copy", s3_path.key, FALSE))
          /\ Except
          /\ UNCHANGED txn
    /\ UNCHANGED <<load_fixed, mpc, conn, server, db, committed>>

\* Line 210: conn.commit(); a commit that raises leaves the table as it was.
Commit ==
    /\ mpc = "load" /\ lpc = "commit"
    /\ \/ /\ sql_log' = Append(sql_log, Stmt("commit", <<>>, TRUE))
          /\ db' = txn
          /\ committed' = TRUE
          /\ log' = log \cup {"load_completed"}
          /\ lpc' = "cursor_close"
       \/ /\ sql_log' = Append(sql_log, Stmt("commit", <<>>, FALSE))
          /\ Except
          /\ UNCHANGED <<db, committed>>
    /\ UNCHANGED <<load_fixed, mpc, conn, server, txn>>

\* Line 213: cur.close()
CursorClose ==
    /\ mpc = "load" /\ lpc = "cursor_close"
    /\ \/ /\ lpc' = "finally_conn"
          /\ UNCHANGED log
       \/ Except
    /\ UNCHANGED <<load_fixed, mpc, conn, server, txn, db, sql_log, committed>>

\* Lines 218-219: if conn: conn.close().  An exception raised here leaves
\* the finally block: line 220 is not reached and the caller sees it.
FinallyConn ==
    /\ mpc = "load" /\ lpc = "finally_conn"
    /\ \/ /\ conn = "none"
          /\ lpc' = "finally_server"
          /\ UNCHANGED <<conn, mpc>>
       \/ /\ conn # "none"
          /\ conn' = "closed"
          /\ lpc' = "finally_server"
          /\ UNCHANGED mpc
       \/ /\ conn # "none"
          /\ conn' \in {"open", "closed"}
          /\ lpc' = "raised"
          /\ mpc' = "raised"
    /\ UNCHANGED <<load_fixed, server, txn, db, sql_log, committed, log>>

\* Lines 220-222: if server: server.stop()
FinallyServer ==
    /\ mpc = "load" /\ lpc = "finally_server"
    /\ \/ /\ server = "none"
          /\ lpc' = "returned"
          /\ mpc' = "done"
          /\ UNCHANGED server
       \/ /\ server # "none"
          /\ server' = "stopped"
          /\ lpc' = "returned"
          /\ mpc' = "done"
       \/ /\ server # "none"
          /\ server' \in {server, "stopped"}
          /\ lpc' = "raised"
          /\ mpc' = "raised"
    /\ UNCHANGED <<load_fixed, conn, txn, db, sql_log, committed, log>>

(***************************************************************************)
(* Provider adapters: extract_with_openai, extract_with_gemini             *)
(***************************************************************************)
MaxImages == 2

\* Base64 texts: "", "QUJD" and "QUI" (a text cut short, its padding wrong).
Images == {<<>>, <<"Q", "U", "J", "D">>, <<"Q", "U", "I">>}

\* base64.b64decode accepts a text of these whose length is a multiple of 4
\* and raises binascii.Error on the others.
b64decode_raises(img) == Len(img) % 4 # 0

\* What the model service does with a request: it fails, or answers with a
\* refusal (no parsed object / no text), with text that is not JSON, with
\* JSON that does not fit the schema, or with a schedule.
Responses == {"error", "empty", "not_json", "wrong_schema", "schedule"}

NoResult == [kind |-> "None"]
ScheduleResult == [kind |-> "ScheduleResponse"]
Unset == [kind |-> "unset"]

adapter_fixed == <<not_adapter, provider, api_key, images, response>>

\* Lines 50-53 and 92-95
CheckApiKey ==
    /\ xpc = "key"
    /\ IF ~api_key
       THEN /\ xlog' = xlog \cup {"api_key_not_found"}
            /\ xresult' = NoResult
            /\ xpc' = "returned"
       ELSE /\ xpc' = "client"
            /\ UNCHANGED <<xlog, xresult>>
    /\ UNCHANGED <<adapter_fixed, nparts, client_built, request_sent>>

\* Lines 55 and 97: OpenAI(...) / genai.Client(...), outside the try
BuildClient ==
    /\ xpc = "client"
    /\ \/ /\ client_built' = TRUE
          /\ xpc' = "parts"
       \/ /\ xpc' = "raised"
          /\ UNCHANGED client_built
    /\ UNCHANGED <<adapter_fixed, nparts, request_sent, xlog, xresult>>

\* Lines 70-76: OpenAI, one image_url entry per image
AttachImageOpenAI ==
    /\ xpc = "parts" /\ provider = "openai"
    /\ nparts < Len(images)
    /\ nparts' = nparts + 1
    /\ UNCHANGED <<adapter_fixed, xpc, client_built, request_sent, xlog,
                   xresult>>

\* Lines 101-105: Gemini, Part.from_bytes(base64.b64decode(img)), outside the
\* try
AttachImageGemini ==
    /\ xpc = "parts" /\ provider = "gemini"
    /\ nparts < Len(images)
    /\ IF b64decode_raises(images[nparts + 1])
       THEN /\ xpc' = "raised"
            /\ UNCHANGED nparts
       ELSE /\ nparts' = nparts + 1
            /\ UNCHANGED xpc
    /\ UNCHANGED <<adapter_fixed, client_built, request_sent, xlog, xresult>>

\* Lines 78-88: OpenAI, the request and its parsed answer, inside the try
RequestOpenAI ==
    /\ xpc = "parts" /\ provider = "openai"
    /\ nparts = Len(images)
    /\ request_sent' = TRUE
    /\ xpc' = "returned"
    /\ IF response = "schedule"
       THEN /\ xresult' = ScheduleResult
            /\ UNCHANGED xlog
       ELSE IF response = "empty"
       THEN /\ xresult' = NoResult
            /\ UNCHANGED xlog
       ELSE /\ xresult' = NoResult
            /\ xlog' = xlog \cup {"extract_error"}
    /\ UNCHANGED <<adapter_fixed, nparts, client_built>>

\* Lines 107-116: Gemini, the request, inside the try
RequestGemini ==
    /\ xpc = "parts" /\ provider = "gemini"
    /\ nparts = Len(images)
    /\ request_sent' = TRUE
    /\ IF response = "error"
       THEN /\ xresult' = NoResult
            /\ xlog' = xlog \cup {"extract_error"}
            /\ xpc' = "returned"
       ELSE /\ xpc' = "parse"
            /\ UNCHANGED <<xlog, xresult>>
    /\ UNCHANGED <<adapter_fixed, nparts, client_built>>

\* Lines 119-126: Gemini, json.loads and ScheduleResponse(**data)
ParseGemini ==
    /\ xpc = "parse"
    /\ xpc' = "returned"
    /\ IF response = "schedule"
       THEN /\ xresult' = ScheduleResult
            /\ UNCHANGED xlog
       ELSE IF response = "empty"
       THEN /\ xresult' = NoResult
            /\ UNCHANGED xlog
       ELSE /\ xresult' = NoResult
            /\ xlog' = xlog \cup {"extract_error"}
    /\ UNCHANGED <<adapter_fixed, nparts, client_built, request_sent>>

AdapterInit ==
    /\ provider \in {"openai", "gemini"}
    /\ api_key \in BOOLEAN
    /\ images \in SeqsUpTo(Images, MaxImages)
    /\ response \in Responses
    /\ xpc = "key"
    /\ nparts = 0
    /\ client_built = FALSE
    /\ request_sent = FALSE
    /\ xlog = {}
    /\ xresult = Unset

AdapterIdle ==
    /\ provider = "openai"
    /\ api_key = FALSE
    /\ images = <<>>
    /\ response = "empty"
    /\ xpc = "idle"
    /\ nparts = 0
    /\ client_built = FALSE
    /\ request_sent = FALSE
    /\ xlog = {}
    /\ xresult = Unset

AdapterNext ==
    \/ CheckApiKey \/ BuildClient \/ AttachImageOpenAI \/ AttachImageGemini
    \/ RequestOpenAI \/ RequestGemini \/ ParseGemini

(***************************************************************************)
(* Serializer: save_to_jsonl                                               *)
(* File content is a sequence of characters; "LF", "QUOTE" and "BSLASH"    *)
(* stand for the line feed, the double quote and the backslash, and the    *)
(* fixed punctuation of a line is kept as whole tokens.                    *)
(***************************************************************************)
\* json.dumps of one character of a string.
escape_char_raw(c) == <<c>>

escape_char(c) ==
    CASE c = "QUOTE" -> <<"BSLASH", "QUOTE">>
      [] c = "BSLASH" -> <<"BSLASH", "BSLASH">>
      [] c = "LF" -> <<"BSLASH", "n">>
      [] OTHER -> <<c>>

RECURSIVE escape(_)
escape(t) == IF t = <<>> THEN <<>> ELSE escape_char(Head(t)) \o escape(Tail(t))

\* json.dumps of a string: the escaped text between double quotes.
json_string(t) == <<"QUOTE">> \o escape(t) \o <<"QUOTE">>

Pad2(n) == IF n < 10 THEN <<"0">> \o IntToStr(n) ELSE IntToStr(n)

Pad4(n) ==
    IF n < 10 THEN <<"0", "0", "0">> \o IntToStr(n)
    ELSE IF n < 100 THEN <<"0", "0">> \o IntToStr(n)
    ELSE IF n < 1000 THEN <<"0">> \o IntToStr(n)
    ELSE IntToStr(n)

\* A datetime: year, hour and UTC offset ("naive" for none); month, day,
\* minute and second are the same in every value of the model.
Datetime(y, h, tz) == [year |-> y, hour |-> h, tz |-> tz]

\* model_dump(mode='json') of a datetime: ISO 8601, UTC written "Z".
dump_datetime(d) ==
    Pad4(d.year) \o <<"-03-01T">> \o Pad2(d.hour) \o <<":00:00">>
        \o (CASE d.tz = "naive" -> <<>>
              [] d.tz = "utc" -> <<"Z">>
              [] d.tz = "+08" -> <<"+08:00">>)

\* json.dumps(entry.model_dump(mode='json')): the fields in declaration order.
dump_entry(e) ==
    <<"{", "\"month\": ">> \o json_string(e.month)
        \o <<", ", "\"exercise_start_datetime\": ">>
        \o json_string(dump_datetime(e.exercise_start_datetime))
        \o <<", ", "\"exercise_end_datetime\": ">>
        \o json_string(dump_datetime(e.exercise_end_datetime))
        \o <<"}">>

\* f"COE_Bidding_Schedule_{year}.jsonl": a file is named by the year.
output_filename(data) == data[1].exercise_start_datetime.year

NoFile == -1

Absent == <<"ABSENT">>

MaxRecords == 2

Months ==
    {<<"2", "0", "2", "5", "-", "0", "3">>, <<"a", "LF", "b">>,
     <<"QUOTE", "a">>, <<"BSLASH", "n">>, <<>>}

Years == {2024, 2025}

Starts == {Datetime(2025, 0, "+08"), Datetime(2024, 9, "utc"),
           Datetime(2025, 0, "naive")}

Ends == {Datetime(2025, 23, "+08"), Datetime(2025, 0, "+08")}

Entries == {Row(m, st, en) : m \in Months, st \in Starts, en \in Ends}

\* What the target file holds before the call: nothing (no such file), or
\* three lines of an earlier save.
OldContent ==
    dump_entry(Row(<<"o", "l", "d">>, Datetime(2025, 0, "+08"),
                   Datetime(2025, 23, "+08"))) \o <<"LF">>

PreviousContents == {Absent, OldContent \o OldContent \o OldContent}

serializer_fixed == <<not_serializer, schedule_data, files0>>

\* Lines 130-132: nothing to save
SaveNothing ==
    /\ spc = "call"
    /\ schedule_data = <<>>
    /\ output_path' = NoFile
    /\ spc' = "returned"
    /\ UNCHANGED <<serializer_fixed, files, written>>

\* Lines 135-143: the name from the first entry's year; open(path, "w")
\* creates the file or empties it.
SaveOpen ==
    /\ spc = "call"
    /\ schedule_data # <<>>
    /\ files' = [files EXCEPT ![output_filename(schedule_data)] = <<>>]
    /\ spc' = "write"
    /\ UNCHANGED <<serializer_fixed, written, output_path>>

\* Lines 144-147: one entry, then "\n"
SaveWriteEntry ==
    /\ spc = "write"
    /\ written < Len(schedule_data)
    /\ LET name == output_filename(schedule_data) IN
       files' = [files EXCEPT ![name] =
                    files[name] \o dump_entry(schedule_data[written + 1])
                        \o <<"LF">>]
    /\ written' = written + 1
    /\ UNCHANGED <<serializer_fixed, spc, output_path>>

\* Line 149
SaveReturn ==
    /\ spc = "write"
    /\ written = Len(schedule_data)
    /\ output_path' = output_filename(schedule_data)
    /\ spc' = "returned"
    /\ UNCHANGED <<serializer_fixed, files, written>>

SerializerInit ==
    /\ schedule_data \in SeqsUpTo(Entries, MaxRecords)
    /\ files \in [Years -> PreviousContents]
    /\ files0 = files
    /\ spc = "call"
    /\ written = 0
    /\ output_path = NoFile

SerializerIdle ==
    /\ schedule_data = <<>>
    /\ files = [y \in Years |-> Absent]
    /\ files0 = files
    /\ spc = "idle"
    /\ written = 0
    /\ output_path = NoFile

SerializerNext == SaveNothing \/ SaveOpen \/ SaveWriteEntry \/ SaveReturn

(***************************************************************************)
(* Loader: runs                                                            *)
(***************************************************************************)
MaxRuns == 2

\* The next run of the loader: a new process with new arguments; the table
\* and the bucket are what the runs before left.
NewRun ==
    /\ mpc \in {"done", "raised"}
    /\ runs < MaxRuns
    /\ runs' = runs + 1
    /\ args' \in Arguments
    /\ prev' = [file_path |-> args.file_path, mode |-> args.mode,
                committed |-> committed, db |-> db]
    /\ db0' = db
    /\ mpc' = "start"
    /\ lpc' = "idle"
    /\ year' = None
    /\ s3_path' = NoPath
    /\ conn' = "none"
    /\ server' = "none"
    /\ txn' = EmptyBag
    /\ sql_log' = <<>>
    /\ log' = {}
    /\ committed' = FALSE
    /\ UNCHANGED <<not_loader, env, db, s3>>

LoaderInit ==
    /\ env \in Environments
    /\ args \in Arguments
    /\ db \in InitialTables
    /\ db0 = db
    /\ s3 = {}
    /\ prev = NoPrev
    /\ runs = 1
    /\ mpc = "start"
    /\ lpc = "idle"
    /\ year = None
    /\ s3_path = NoPath
    /\ conn = "none"
    /\ server = "none"
    /\ txn = EmptyBag
    /\ sql_log = <<>>
    /\ log = {}
    /\ committed = FALSE

\* The loader at rest, for the specifications of the other components.
LoaderIdle ==
    /\ env = [bucket |-> FALSE, missing |-> {}, ssh |-> {}]
    /\ args = [file_path |-> <<>>, upload_s3 |-> FALSE,
               load_redshift |-> FALSE, mode |-> "append"]
    /\ db = EmptyBag
    /\ db0 = EmptyBag
    /\ s3 = {}
    /\ prev = NoPrev
    /\ runs = 0
    /\ mpc = "idle"
    /\ lpc = "idle"
    /\ year = None
    /\ s3_path = NoPath
    /\ conn = "none"
    /\ server = "none"
    /\ txn = EmptyBag
    /\ sql_log = <<>>
    /\ log = {}
    /\ committed = FALSE

YearIdle ==
    /\ file_path = <<>>
    /\ ypc = "idle"
    /\ yresult = None

LoaderNext ==
    \/ MainStart \/ MainYear \/ UploadBucket \/ UploadClient \/ UploadFile
    \/ MainDispatch \/ LoadCheckConfig \/ TunnelConstruct \/ TunnelStart
    \/ Connect \/ Cursor \/ CreateTable \/ DeleteYear \/ SkipDeleteWarn
    \/ AppendNoDelete \/ Copy \/ Commit \/ CursorClose \/ FinallyConn
    \/ FinallyServer \/ NewRun

\* Runs of the loader.
InitLoad == LoaderInit /\ YearIdle /\ AdapterIdle /\ SerializerIdle

SpecLoad == InitLoad /\ [][LoaderNext]_vars

\* Calls of a provider adapter.
InitExtract == AdapterInit /\ YearIdle /\ LoaderIdle /\ SerializerIdle

SpecExtract == InitExtract /\ [][AdapterNext]_vars

\* Calls of save_to_jsonl.
InitSave == SerializerInit /\ YearIdle /\ LoaderIdle /\ AdapterIdle

SpecSave == InitSave /\ [][SerializerNext]_vars

(***************************************************************************)
(* Loader: properties                                                      *)
(***************************************************************************)
\* Positions of sql_log holding the statement op.
Issued(op) == {i \in 1..Len(sql_log) : sql_log[i].op = op}

\* load_to_redshift has been entered / has been left in this run.
LoadEntered == lpc # "idle"
LoadLeft == lpc \in {"returned", "raised"}

\* The rows a run adds in append mode.
AppendEffect == db0 (+) SeqToBag(FileRows(args.file_path))

\* C1: whatever step raised, when load_to_redshift returns or exits, every
\* connection that was opened is closed and every tunnel that was started
\* is stopped.
C1_AllReleasedOnExit ==
    LoadLeft => conn # "open" /\ server # "started"

\* C2: commit is called only after create, the delete (when issued) and copy
\* succeeded; when one of these raises, commit is never called, the
\* connection is closed with the table as before the run, and the exception
\* is logged and does not reach the caller.
C2_CommitOnlyAfterCopy ==
    /\ \A i \in Issued("commit") :
          /\ \A j \in 1..(i - 1) : sql_log[j].ok
          /\ \E j \in Issued("create") : j < i
          /\ \E j \in Issued("copy") : j < i
          /\ ShouldDelete(args.mode, year) => \E j \in Issued("delete") : j < i
    /\ (/\ LoadLeft
        /\ \E i \in 1..Len(sql_log) :
              sql_log[i].op \in {"create", "delete", "copy"} /\ ~sql_log[i].ok)
       => /\ Issued("commit") = {}
          /\ conn = "closed"
          /\ db = db0
          /\ "load_error" \in log
          /\ lpc = "returned"

\* C3: in replace mode with a year given, the delete of the rows whose month
\* contains the year's digits is issued after the create and before the copy,
\* in the same transaction; in append mode no delete is issued at all.
C3_DeleteBeforeCopy ==
    /\ (LoadEntered /\ args.mode = "replace" /\ year # None)
       => \A c \in Issued("copy") :
             \E d \in Issued("delete") :
                /\ d < c
                /\ sql_log[d].arg = IntToStr(year)
                /\ \E t \in Issued("create") : t < d
                /\ \A k \in Issued("commit") : k > c
    /\ args.mode = "append" => Issued("delete") = {}

\* C4: after two consecutive successful replace loads of one file the table
\* holds the same rows as after the first of them.
C4_ReplaceIdempotent ==
    (/\ mpc = "done" /\ committed /\ args.mode = "replace"
     /\ prev.committed /\ prev.mode = "replace"
     /\ prev.file_path = args.file_path)
    => db = prev.db

\* C5: with any warehouse value missing (host, database, user, password, IAM
\* role, table name) load_to_redshift aborts as a configuration error with no
\* tunnel, no connection and no SQL statement.
C5_MissingConfigAborts ==
    (env.missing # {} /\ LoadEntered /\ lpc # "config")
    => /\ "config_missing" \in log
       /\ lpc = "returned"
       /\ server = "none"
       /\ conn = "none"
       /\ sql_log = <<>>

\* C7: the warehouse load is started only after an upload of the same run
\* returned a storage URI; when the upload fails, has no bucket configured or
\* is switched off, the load is skipped and the run ends without raising.
C7_LoadOnlyAfterUpload ==
    /\ LoadEntered => s3_path.ok
    /\ (mpc \in {"done", "raised"} /\ ~s3_path.ok)
       => /\ lpc = "idle"
          /\ sql_log = <<>>
          /\ mpc = "done"

\* C8: in replace mode with year None, load_to_redshift issues no delete,
\* prints the warning and goes on to the copy and the commit; a committed run
\* leaves the table as an append-mode run does.
C8_ReplaceWithoutYear ==
    /\ (LoadEntered /\ args.mode = "replace" /\ year = None)
       => /\ Issued("delete") = {}
          /\ Issued("copy") # {} => "warn_skip_delete" \in log
          /\ \A i \in 1..Len(sql_log) :
                (i > 1 /\ sql_log[i - 1].op = "create") => sql_log[i].op = "copy"
          /\ \A i \in 1..Len(sql_log) :
                (i > 1 /\ sql_log[i - 1].op = "copy") => sql_log[i].op = "commit"
          /\ lpc \in {"commit", "cursor_close"} => Issued("copy") # {}
          /\ committed => db = AppendEffect
    /\ (LoadEntered /\ args.mode = "append" /\ committed) => db = AppendEffect

\* A replace-mode run on a file without a year in its name has committed on
\* top of a table that held rows, and has returned.
C8_Witness ==
    /\ mpc = "done" /\ lpc = "returned"
    /\ args.mode = "replace" /\ year = None
    /\ committed
    /\ "warn_skip_delete" \in log
    /\ db0 # EmptyBag
    /\ db = AppendEffect
    /\ [j \in 1..Len(sql_log) |-> sql_log[j].op] = <<"create", "copy", "commit">>

(***************************************************************************)
(* Provider adapters: properties                                           *)
(***************************************************************************)
\* C9: whichever step fails, an adapter ends with a ScheduleResponse or with
\* no result and never raises to its caller; with the API key missing it
\* returns no result before a client is built or a request is sent.
C9_AdapterNeverRaises ==
    /\ xpc # "raised"
    /\ xpc = "returned" => xresult \in {NoResult, ScheduleResult}
    /\ (xpc = "returned" /\ ~api_key)
       => xresult = NoResult /\ ~client_built /\ ~request_sent

(***************************************************************************)
(* Serializer: properties                                                  *)
(***************************************************************************)
\* The lines of a text file: each ends at a line feed; what follows the last
\* line feed, when there is anything, is one more line.
RECURSIVE SplitLines(_, _)
SplitLines(c, cur) ==
    IF c = <<>> THEN (IF cur = <<>> THEN <<>> ELSE <<cur>>)
    ELSE IF Head(c) = "LF" THEN <<cur>> \o SplitLines(Tail(c), <<>>)
    ELSE SplitLines(Tail(c), Append(cur, Head(c)))

\* json.loads of the character after a backslash.
Unescape(c) == IF c = "n" THEN "LF" ELSE c

\* Reads a JSON string body from position i up to its closing quote.
RECURSIVE ReadString(_, _, _)
ReadString(t, i, acc) ==
    IF i > Len(t) THEN [ok |-> FALSE, val |-> acc, next |-> i]
    ELSE IF t[i] = "QUOTE" THEN [ok |-> TRUE, val |-> acc, next |-> i + 1]
    ELSE IF t[i] = "BSLASH"
    THEN IF i + 1 > Len(t) THEN [ok |-> FALSE, val |-> acc, next |-> i]
         ELSE ReadString(t, i + 2, Append(acc, Unescape(t[i + 1])))
    ELSE ReadString(t, i + 1, Append(acc, t[i]))

Expect(t, i, toks) ==
    /\ i + Len(toks) - 1 <= Len(t)
    /\ SubSeq(t, i, i + Len(toks) - 1) = toks

\* json.loads of one line: the three string fields, in the order written.
ParseLine(line) ==
    LET m == ReadString(line, 4, <<>>)
        st == ReadString(line, m.next + 3, <<>>)
        en == ReadString(line, st.next + 3, <<>>)
    IN  [ok |-> /\ Expect(line, 1, <<"{", "\"month\": ", "QUOTE">>)
                /\ m.ok
                /\ Expect(line, m.next,
                          <<", ", "\"exercise_start_datetime\": ", "QUOTE">>)
                /\ st.ok
                /\ Expect(line, st.next,
                          <<", ", "\"exercise_end_datetime\": ", "QUOTE">>)
                /\ en.ok
                /\ en.next = Len(line)
                /\ line[en.next] = "}",
         month |-> m.val, start |-> st.val, end |-> en.val]

\* An ISO 8601 text of the model's shape.
IsIsoText(t) ==
    /\ Len(t) \in {8, 9}
    /\ \A k \in {1, 2, 3, 4, 6, 7} : IsDigit(t[k])
    /\ t[5] = "-03-01T"
    /\ t[8] = ":00:00"
    /\ Len(t) = 9 => t[9] \in {"Z", "+00:00", "+08:00"}

\* datetime.fromisoformat of such a text.
ParseDatetime(t) ==
    Datetime(ParseInt(SubSeq(t, 1, 4)), ParseInt(SubSeq(t, 6, 7)),
             IF Len(t) = 8 THEN "naive"
             ELSE IF t[9] = "+08:00" THEN "+08" ELSE "utc")

\* datetime.isoformat(): UTC is written "+00:00".
IsoFormat(d) ==
    Pad4(d.year) \o <<"-03-01T">> \o Pad2(d.hour) \o <<":00:00">>
        \o (CASE d.tz = "naive" -> <<>>
              [] d.tz = "utc" -> <<"+00:00">>
              [] d.tz = "+08" -> <<"+08:00">>)

SameTimestamp(text, d) ==
    IsIsoText(text) /\ IsoFormat(ParseDatetime(text)) = IsoFormat(d)

\* C10: for a schedule of at least one record, the file save_to_jsonl
\* returns holds exactly one line per record, in the schedule's order, each
\* parsing back to the record's month, start and end (timestamps compared by
\* ISO 8601 text); nothing of the file's previous content remains.
C10_RoundTrip ==
    (spc = "returned" /\ schedule_data # <<>>)
    => /\ output_path # NoFile
       /\ LET lines == SplitLines(files[output_path], <<>>) IN
          /\ Len(lines) = Len(schedule_data)
          /\ \A i \in 1..Len(lines) :
                LET got == ParseLine(lines[i]) IN
                /\ got.ok
                /\ got.month = schedule_data[i].month
                /\ SameTimestamp(got.start,
                                 schedule_data[i].exercise_start_datetime)
                /\ SameTimestamp(got.end,
                                 schedule_data[i].exercise_end_datetime)
       /\ \A y \in Years \ {output_path} : files[y] = files0[y]

\* Two records, their months holding a line feed and a double quote, the
\* first start in UTC, have been saved over a file that held three lines.
C10_Witness ==
    /\ spc = "returned"
    /\ Len(schedule_data) = 2
    /\ schedule_data[1].month = <<"a", "LF", "b">>
    /\ schedule_data[2].month = <<"QUOTE", "a">>
    /\ schedule_data[1].exercise_start_datetime.tz = "utc"
    /\ output_path = 2024
    /\ files0[2024] = OldContent \o OldContent \o OldContent
    /\ Len(SplitLines(files[2024], <<>>)) = 2

(***************************************************************************)
(* Year parser: inputs                                                     *)
(***************************************************************************)
MaxPathLen == 6

PathChars == {"0", "2", "a", "/"}

\* "COE_Bidding_Schedule_2025.jsonl"
ExampleWithYear ==
    <<"C","O","E","_","B","i","d","d","i","n","g","_","S","c","h","e","d","u",
      "l","e","_","2","0","2","5",".","j","s","o","n","l">>

\* "data/schedule.jsonl"
ExampleNoYear ==
    <<"d","a","t","a","/","s","c","h","e","d","u","l","e",".","j","s","o","n","l">>

\* "1999/COE_20250301.jsonl", "12_2025.jsonl"
ExampleLongRun ==
    <<"1","9","9","9","/","C","O","E","_","2","0","2","5","0","3","0","1",
      ".","j","s","o","n","l">>

ExampleShortThenYear ==
    <<"1","2","_","2","0","2","5",".","j","s","o","n","l">>

YearPaths ==
    SeqsUpTo(PathChars, MaxPathLen)
        \cup {ExampleWithYear, ExampleNoYear, ExampleLongRun, ExampleShortThenYear}

YearInit ==
    /\ file_path \in YearPaths
    /\ ypc = "call"
    /\ yresult = None
    /\ LoaderIdle
    /\ AdapterIdle
    /\ SerializerIdle

ExtractYear ==
    /\ ypc = "call"
    /\ yresult' = extract_year_from_filename(file_path)
    /\ ypc' = "returned"
    /\ UNCHANGED <<file_path, not_year>>

YearNext == ExtractYear

SpecYear == YearInit /\ [][YearNext]_vars

(***************************************************************************)
(* Year parser: properties                                                 *)
(***************************************************************************)
\* Length of the digit run of s that begins at position i.
RECURSIVE RunLen(_, _)
RunLen(s, i) ==
    IF i > Len(s) \/ ~IsDigit(s[i]) THEN 0 ELSE 1 + RunLen(s, i + 1)

\* Positions at which a maximal digit run of s begins.
RunStarts(s) ==
    {i \in 1..Len(s) : IsDigit(s[i]) /\ (i = 1 \/ ~IsDigit(s[i - 1]))}

FirstOf(S) == CHOOSE i \in S : \A j \in S : i <= j

\* Value of the first maximal digit run of exactly four digits, else None.
FirstExactRunYear(s) ==
    LET exact == {i \in RunStarts(s) : RunLen(s, i) = 4}
    IN  IF exact = {} THEN None
        ELSE ParseInt(SubSeq(s, FirstOf(exact), FirstOf(exact) + 3))

\* Value of the first four digits of the first maximal digit run of at
\* least four digits, else None.
FirstLongRunYear(s) ==
    LET long == {i \in RunStarts(s) : RunLen(s, i) >= 4}
    IN  IF long = {} THEN None
        ELSE ParseInt(SubSeq(s, FirstOf(long), FirstOf(long) + 3))

\* The part of a path after its last "/", found by scanning from the end.
RECURSIVE LastComponent(_)
LastComponent(p) ==
    IF p = <<>> \/ p[Len(p)] = "/" THEN <<>>
    ELSE LastComponent(SubSeq(p, 1, Len(p) - 1)) \o <<p[Len(p)]>>

\* C6 (as stated): the parser returns the value of the first run of exactly
\* four consecutive digits of the base filename, and None when the base
\* filename has no such run, also when its digit runs are longer than four.
C6_ExactRun ==
    ypc = "returned" => yresult = FirstExactRunYear(LastComponent(file_path))

\* C6 (amended): the parser returns the value of the first four digits of
\* the first digit run of at least four digits in the base filename
\* (directory components ignored), and None when the base filename has no run
\* of four or more digits.
C6_FirstFourDigits ==
    ypc = "returned" => yresult = FirstLongRunYear(LastComponent(file_path))

\* A path with a four-digit directory and an eight-digit run in the base
\* filename has been parsed to the first four digits of that run.
C6_Witness ==
    /\ ypc = "returned"
    /\ file_path = ExampleLongRun
    /\ yresult = 2025

====
